---- MODULE Spec2Model ----
(***************************************************************************)
(* Exercise log of hw1_Documented_code.py: ExerciseManager keeps a pandas  *)
(* DataFrame (exercise_df) and rewrites exercise_data.csv after every      *)
(* mutation; ExerciseApp.run is the console loop that calls it.            *)
(*                                                                         *)
(* A DataFrame is a sequence of rows, each carrying its index LABEL        *)
(* (pandas addresses rows by label in .at and .drop, not by position).     *)
(* Text (console input, CSV cells) is a sequence of one-character strings, *)
(* so that formatting and parsing are computed and not assumed.            *)
(*                                                                         *)
(* Kept out of the model: CSV quoting (no name here holds a comma, a quote *)
(* or a line break), names that are numerals (read_csv would read a column *)
(* of them back as numbers), and the dtype of a column (an int column that *)
(* pandas upcasts to float keeps the same numbers).                        *)
(*                                                                         *)
(* No exception is caught anywhere in the program: a call that raises ends *)
(* the process. state is then "Uninitialized" again, and exercise_df keeps *)
(* the table the ended process held until the next Start replaces it by    *)
(* what load_data reads.                                                   *)
(***************************************************************************)
EXTENDS Integers, Sequences, FiniteSets, TLC

VARIABLES state, exercise_df, csv_file, op, out

vars == <<state, exercise_df, csv_file, op, out>>

\* ------------------------------------------------------------------ bounds
\* Largest number of rows the table is allowed to grow to.
MaxLen == 2

\* ------------------------------------------------------------------- text
Digits == <<"0", "1", "2", "3", "4", "5", "6", "7", "8", "9">>

IsDigit(c) == \E i \in 1..10 : Digits[i] = c

DigitVal(c) == (CHOOSE i \in 1..10 : Digits[i] = c) - 1

\* str(n) for n >= 0
RECURSIVE FormatNat(_)
FormatNat(n) ==
    IF n < 10 THEN <<Digits[n + 1]>>
    ELSE FormatNat(n \div 10) \o <<Digits[(n % 10) + 1]>>

\* str(n)
FormatInt(n) == IF n < 0 THEN <<"-">> \o FormatNat(0 - n) ELSE FormatNat(n)

\* n formatted in at least w digits, zero padded (%Y, %m, %d)
RECURSIVE ZeroPad(_, _)
ZeroPad(s, w) == IF Len(s) >= w THEN s ELSE ZeroPad(<<"0">> \o s, w)

IsNatText(s) == Len(s) > 0 /\ \A i \in 1..Len(s) : IsDigit(s[i])

IsIntText(s) ==
    \/ IsNatText(s)
    \/ Len(s) > 1 /\ s[1] = "-" /\ IsNatText(Tail(s))

RECURSIVE ParseNat(_)
ParseNat(s) ==
    IF s = <<>> THEN 0
    ELSE 10 * ParseNat(SubSeq(s, 1, Len(s) - 1)) + DigitVal(s[Len(s)])

\* int(s)
ParseInt(s) == IF s[1] = "-" THEN 0 - ParseNat(Tail(s)) ELSE ParseNat(s)

\* ----------------------------------------------------------------- values
\* A cell of the DataFrame: a Python str, an int, a datetime at midnight, or
\* the missing value (NaN / NaT).
StrVal(s) == [t |-> "str", v |-> s]
IntVal(n) == [t |-> "int", v |-> n]
DateVal(y, m, d) == [t |-> "date", v |-> <<y, m, d>>]
NaN == [t |-> "nan", v |-> 0]

\* datetime.strptime(date_str, "%m/%d/%y"): MM/DD/YY, two-digit years 69..99
\* are 19xx and 00..68 are 20xx.
strptime(s) ==
    LET yy == ParseNat(SubSeq(s, 7, 8))
    IN  DateVal(IF yy < 69 THEN 2000 + yy ELSE 1900 + yy,
             ParseNat(SubSeq(s, 1, 2)), ParseNat(SubSeq(s, 4, 5)))

\* columns = ["Exercise", "Duration", "Calories_Burned", "Date"]
columns ==
    << <<"E", "x", "e", "r", "c", "i", "s", "e">>,
       <<"D", "u", "r", "a", "t", "i", "o", "n">>,
       <<"C", "a", "l", "o", "r", "i", "e", "s", "_", "B", "u", "r", "n", "e", "d">>,
       <<"D", "a", "t", "e">> >>

\* One row of the frame: its index label and the four column values.
Row(label, exercise, duration, calories_burned, date) ==
    [label |-> label, Exercise |-> exercise, Duration |-> duration,
     Calories_Burned |-> calories_burned, Date |-> date]

\* The record a row holds, without its label.
Rec(r) == <<r.Exercise, r.Duration, r.Calories_Burned, r.Date>>

RECURSIVE Recs(_)
Recs(df) == IF df = <<>> THEN <<>> ELSE <<Rec(Head(df))>> \o Recs(Tail(df))

Labels(df) == {df[i].label : i \in 1..Len(df)}

\* -------------------------------------------------------------- CSV format
\* The backing file: absent, or its lines (each a sequence of cell texts).
Absent == [exists |-> FALSE, lines |-> <<>>]

File(lines) == [exists |-> TRUE, lines |-> lines]

\* to_csv's text of one value: strings as they are, integers in decimal,
\* midnight datetimes as YYYY-MM-DD, missing values as the empty field.
ToCell(x) ==
    CASE x.t = "str" -> x.v
      [] x.t = "int" -> FormatInt(x.v)
      [] x.t = "date" ->
            ZeroPad(FormatNat(x.v[1]), 4) \o <<"-">> \o
            ZeroPad(FormatNat(x.v[2]), 2) \o <<"-">> \o
            ZeroPad(FormatNat(x.v[3]), 2)
      [] OTHER -> <<>>

RECURSIVE ToLines(_)
ToLines(df) ==
    IF df = <<>> THEN <<>>
    ELSE << <<ToCell(Head(df).Exercise), ToCell(Head(df).Duration),
              ToCell(Head(df).Calories_Burned), ToCell(Head(df).Date)>> >>
         \o ToLines(Tail(df))

\* DataFrame.to_csv(csv_file, index=False): the header line, then one line
\* per row in row order; the index labels are not written.
to_csv(df) == File(<<columns>> \o ToLines(df))

\* The texts pandas.read_csv reads as a missing value (default na_values).
NaValues ==
    { <<>>, <<"N", "A">>, <<"N", "a", "N">>, <<"n", "a", "n">>,
      <<"N", "/", "A">>, <<"n", "/", "a">>, <<"N", "U", "L", "L">>,
      <<"n", "u", "l", "l">>, <<"N", "o", "n", "e">>, <<"<", "N", "A", ">">>,
      <<"#", "N", "A">>, <<"#", "N", "/", "A">> }

\* read_csv infers the type of a column that is not a date column from all
\* of its cells: integer when every cell that is not missing is an integer
\* text, string otherwise.
RECURSIVE ColumnIsInt(_, _)
ColumnIsInt(lines, col) ==
    \/ lines = <<>>
    \/ /\ Head(lines)[col] \in NaValues \/ IsIntText(Head(lines)[col])
       /\ ColumnIsInt(Tail(lines), col)

ParseCell(c, isInt) ==
    IF c \in NaValues THEN NaN
    ELSE IF isInt THEN IntVal(ParseInt(c))
    ELSE StrVal(c)

\* parse_dates=['Date']: YYYY-MM-DD to a datetime, a missing value to NaT.
ParseDate(c) ==
    IF c \in NaValues THEN NaN
    ELSE DateVal(ParseNat(SubSeq(c, 1, 4)), ParseNat(SubSeq(c, 6, 7)),
              ParseNat(SubSeq(c, 9, 10)))

\* The data lines of a file as a frame with a fresh RangeIndex 0..n-1.
RECURSIVE FromLines(_, _, _)
FromLines(lines, k, isInt) ==
    IF lines = <<>> THEN <<>>
    ELSE LET l == Head(lines)
         IN  <<Row(k, ParseCell(l[1], isInt[1]), ParseCell(l[2], isInt[2]),
                   ParseCell(l[3], isInt[3]), ParseDate(l[4]))>>
             \o FromLines(Tail(lines), k + 1, isInt)

\* load_data: read_csv of the file, or the empty frame when there is none.
load_data(file) ==
    IF ~file.exists THEN <<>>
    ELSE LET lines == Tail(file.lines)
         IN  FromLines(lines, 0, [col \in 1..3 |-> ColumnIsInt(lines, col)])

\* Mutant of save_data: the file is created when it is missing and never
\* rewritten afterwards.
save_data_create_only(df, file, writable) ==
    IF writable /\ ~file.exists THEN to_csv(df) ELSE file

\* save_data: to_csv over the file; when the file cannot be opened for
\* writing the call raises and the file keeps its content.
save_data(df, file, writable) == IF writable THEN to_csv(df) ELSE file

\* ------------------------------------------------------- frame operations
\* pd.concat([...], ignore_index=True): the rows in order, relabelled 0..n-1.
RECURSIVE Relabel(_, _)
Relabel(df, k) ==
    IF df = <<>> THEN <<>>
    ELSE <<[Head(df) EXCEPT !.label = k]>> \o Relabel(Tail(df), k + 1)

concat(df, new_row) == Relabel(df \o new_row, 0)

\* Mutant of add_data: the new row is concatenated before the table.
add_data_prepend(df, exercise, duration, calories_burned, date) ==
    concat(<<Row(0, exercise, duration, calories_burned, date)>>, df)

\* add_data without its save: the new row appended, the index rebuilt.
add_data(df, exercise, duration, calories_burned, date) ==
    concat(df, <<Row(0, exercise, duration, calories_burned, date)>>)

\* df.at[index, col] = value: the cell of the row labelled index; when no
\* row has that label, pandas falls back to .loc and appends a row with
\* that label, its other cells missing.
at_set(df, index, col, value) ==
    IF index \in Labels(df)
    THEN [i \in 1..Len(df) |->
            IF df[i].label = index THEN [df[i] EXCEPT ![col] = value]
            ELSE df[i]]
    ELSE df \o <<[Row(index, NaN, NaN, NaN, NaN) EXCEPT ![col] = value]>>

\* edit_data without its save: four .at assignments.
edit_data(df, index, exercise, duration, calories_burned, date) ==
    at_set(at_set(at_set(at_set(df, index, "Exercise", exercise),
                         index, "Duration", duration),
                  index, "Calories_Burned", calories_burned),
           index, "Date", date)

\* df.drop(index) raises KeyError when no row is labelled index.
drop_raises(df, index) == index \notin Labels(df)

\* df.drop(index): the rows whose label is not index, labels kept.
drop(df, index) == SelectSeq(df, LAMBDA r : r.label # index)

\* delete_data without its save.
delete_data(df, index) == drop(df, index)

Upper == <<"A", "B", "C", "D", "E", "F", "G", "H", "I", "J", "K", "L", "M",
           "N", "O", "P", "Q", "R", "S", "T", "U", "V", "W", "X", "Y", "Z">>

Lower == <<"a", "b", "c", "d", "e", "f", "g", "h", "i", "j", "k", "l", "m",
           "n", "o", "p", "q", "r", "s", "t", "u", "v", "w", "x", "y", "z">>

\* str.lower()
ToLower(s) ==
    [i \in 1..Len(s) |->
        IF \E k \in 1..26 : Upper[k] = s[i]
        THEN Lower[CHOOSE k \in 1..26 : Upper[k] = s[i]]
        ELSE s[i]]

\* Mutant of filter_exercise: the names are compared without regard to case.
filter_exercise_nocase(df, exercise_name) ==
    SelectSeq(df, LAMBDA r :
        r.Exercise.t = "str" /\ ToLower(r.Exercise.v) = ToLower(exercise_name))

\* get_all_data()[get_all_data()["Exercise"] == exercise_name]
filter_exercise(df, exercise_name) ==
    SelectSeq(df, LAMBDA r : r.Exercise = StrVal(exercise_name))

\* get_all_data()[get_all_data()["Date"] == date]
filter_date(df, date) == SelectSeq(df, LAMBDA r : r.Date = date)

\* The Duration column as integers.
RECURSIVE DurationColumn(_)
DurationColumn(df) ==
    IF df = <<>> THEN <<>> ELSE <<Head(df).Duration.v>> \o DurationColumn(Tail(df))

RECURSIVE Sum(_)
Sum(s) == IF s = <<>> THEN 0 ELSE Head(s) + Sum(Tail(s))

\* statistics.mean: the exact quotient sum / count, kept as a fraction.
mean(s) == [num |-> Sum(s), den |-> Len(s)]

\* statistics.median: the middle value of the sorted data, or the average
\* of the two middle values, kept as a fraction.
median(s) ==
    LET sorted == SortSeq(s, LAMBDA a, b : a < b)
        n == Len(s)
    IN  IF n % 2 = 1 THEN [num |-> sorted[(n \div 2) + 1], den |-> 1]
        ELSE [num |-> sorted[n \div 2] + sorted[(n \div 2) + 1], den |-> 2]

\* ---------------------------------------------------------- console input
\* The texts typed at the prompts of choices 2 and 3.
Inputs ==
    { [exercise |-> <<"R", "u", "n">>, duration |-> <<"1", "0">>,
       calories_burned |-> <<"1", "0", "0">>,
       date_str |-> <<"0", "1", "/", "0", "5", "/", "2", "4">>],
      [exercise |-> <<"r", "u", "n">>, duration |-> <<"2", "0">>,
       calories_burned |-> <<"2", "0", "0">>,
       date_str |-> <<"1", "2", "/", "3", "1", "/", "9", "9">>],
      [exercise |-> <<"N", "A">>, duration |-> <<"2", "0">>,
       calories_burned |-> <<"1", "0", "0">>,
       date_str |-> <<"0", "1", "/", "0", "5", "/", "2", "4">>] }

\* The indices typed at the prompts of choices 3 and 4.
Indices == -1..MaxLen

\* The names and dates typed at the prompts of choice 6; one of each matches
\* no input above.
FilterNames == {i.exercise : i \in Inputs} \cup {<<"S", "w", "i", "m">>}

FilterDates ==
    {i.date_str : i \in Inputs} \cup {<<"0", "2", "/", "0", "2", "/", "2", "2">>}

\* The record built from the prompts: exercise as typed, int(...) of the
\* two numbers, strptime of the date.
Parsed(in) ==
    <<StrVal(in.exercise), IntVal(ParseInt(in.duration)),
      IntVal(ParseInt(in.calories_burned)), strptime(in.date_str)>>

NoOut == [kind |-> "none", rows |-> <<>>, stats |-> <<>>]

Call(name, index, args, result) ==
    [name |-> name, index |-> index, args |-> args, result |-> result]

Mutating == {"add", "edit", "delete"}

\* ---------------------------------------------------------------- actions
Init ==
    /\ state = "Uninitialized"
    /\ exercise_df = <<>>
    /\ csv_file = Absent
    /\ op = Call("none", 0, <<>>, "ok")
    /\ out = NoOut

\* ExerciseApp.__init__ -> ExerciseManager.__new__: a new process builds the
\* singleton and loads the file.
Start ==
    /\ state = "Uninitialized"
    /\ state' = "Ready"
    /\ exercise_df' = load_data(csv_file)
    /\ op' = Call("load", 0, <<>>, "ok")
    /\ out' = NoOut
    /\ UNCHANGED csv_file

\* choice 1: print(get_all_data())
ReadData ==
    /\ state = "Ready"
    /\ out' = [kind |-> "table", rows |-> exercise_df, stats |-> <<>>]
    /\ op' = Call("read", 0, <<>>, "ok")
    /\ UNCHANGED <<state, exercise_df, csv_file>>

\* choice 2: add_data, then its save. An exception of the save is not caught
\* anywhere: the process ends with the table as add_data left it.
AddData(in, writable) ==
    /\ state = "Ready"
    /\ Len(exercise_df) < MaxLen
    /\ LET a == Parsed(in)
       IN  /\ exercise_df' = add_data(exercise_df, a[1], a[2], a[3], a[4])
           /\ op' = Call("add", 0, a, IF writable THEN "ok" ELSE "OSError")
    /\ csv_file' = save_data(exercise_df', csv_file, writable)
    /\ state' = IF writable THEN "Ready" ELSE "Uninitialized"
    /\ out' = NoOut

\* choice 3: edit_data, then its save.
EditData(index, in, writable) ==
    /\ state = "Ready"
    /\ index \in Labels(exercise_df) \/ Len(exercise_df) < MaxLen
    /\ LET a == Parsed(in)
       IN  /\ exercise_df' = edit_data(exercise_df, index, a[1], a[2], a[3], a[4])
           /\ op' = Call("edit", index, a, IF writable THEN "ok" ELSE "OSError")
    /\ csv_file' = save_data(exercise_df', csv_file, writable)
    /\ state' = IF writable THEN "Ready" ELSE "Uninitialized"
    /\ out' = NoOut

\* choice 4: delete_data, then its save. drop's KeyError leaves the table and
\* the file as they were and ends the process.
DeleteData(index, writable) ==
    /\ state = "Ready"
    /\ out' = NoOut
    /\ IF drop_raises(exercise_df, index)
       THEN /\ op' = Call("delete", index, <<>>, "KeyError")
            /\ state' = "Uninitialized"
            /\ UNCHANGED <<exercise_df, csv_file>>
       ELSE /\ exercise_df' = delete_data(exercise_df, index)
            /\ csv_file' = save_data(exercise_df', csv_file, writable)
            /\ op' = Call("delete", index, <<>>, IF writable THEN "ok" ELSE "OSError")
            /\ state' = IF writable THEN "Ready" ELSE "Uninitialized"

\* choice 5: mean and median of the Duration column, or the "no data" line.
AnalyzeData ==
    /\ state = "Ready"
    /\ out' = IF exercise_df # <<>>
              THEN [kind |-> "stats", rows |-> <<>>,
                    stats |-> <<mean(DurationColumn(exercise_df)),
                                median(DurationColumn(exercise_df))>>]
              ELSE [kind |-> "nodata", rows |-> <<>>, stats |-> <<>>]
    /\ op' = Call("analyze", 0, <<>>, "ok")
    /\ UNCHANGED <<state, exercise_df, csv_file>>

\* choice 6, option 1: the rows whose Exercise equals the name typed.
FilterByExercise(exercise_name) ==
    /\ state = "Ready"
    /\ out' = [kind |-> "filtered", stats |-> <<>>,
               rows |-> filter_exercise(exercise_df, exercise_name)]
    /\ op' = Call("filterByExercise", 0, <<StrVal(exercise_name)>>, "ok")
    /\ UNCHANGED <<state, exercise_df, csv_file>>

\* choice 6, option 2: the rows whose Date equals the date typed.
FilterByDate(date_str) ==
    /\ state = "Ready"
    /\ out' = [kind |-> "filtered", stats |-> <<>>,
               rows |-> filter_date(exercise_df, strptime(date_str))]
    /\ op' = Call("filterByDate", 0, <<strptime(date_str)>>, "ok")
    /\ UNCHANGED <<state, exercise_df, csv_file>>

\* choice 7: the loop breaks and the process ends.
Exit ==
    /\ state = "Ready"
    /\ state' = "Uninitialized"
    /\ op' = Call("exit", 0, <<>>, "ok")
    /\ out' = NoOut
    /\ UNCHANGED <<exercise_df, csv_file>>

Queries ==
    \/ ReadData
    \/ AnalyzeData
    \/ \E n \in FilterNames : FilterByExercise(n)
    \/ \E d \in FilterDates : FilterByDate(d)

\* The file can always be written.
Next ==
    \/ Start
    \/ Exit
    \/ Queries
    \/ \E in \in Inputs : AddData(in, TRUE)
    \/ \E i \in Indices, in \in Inputs : EditData(i, in, TRUE)
    \/ \E i \in Indices : DeleteData(i, TRUE)

Spec == Init /\ [][Next]_vars

\* The file may refuse to be opened for writing (permissions, a directory
\* in its place) at any save.
NextIO ==
    \/ Start
    \/ Exit
    \/ Queries
    \/ \E w \in BOOLEAN, in \in Inputs : AddData(in, w)
    \/ \E w \in BOOLEAN, i \in Indices, in \in Inputs : EditData(i, in, w)
    \/ \E w \in BOOLEAN, i \in Indices : DeleteData(i, w)

SpecIO == Init /\ [][NextIO]_vars

\* Only choices 1, 2, 5, 6 and 7 are taken: sequences of add calls, with
\* reads and restarts between them.
NextAdd ==
    \/ Start
    \/ Exit
    \/ Queries
    \/ \E in \in Inputs : AddData(in, TRUE)

SpecAdd == Init /\ [][NextAdd]_vars

\* ----------------------------------------------------------------- claims
\* The record of the row that index addresses (the row labelled index).
RecAt(df, index) == Rec(df[CHOOSE i \in 1..Len(df) : df[i].label = index])

Positions(df) == 0..(Len(df) - 1)

\* C1: edit with an index that has no record (in particular index = n, one
\* past the end) signals an index error and leaves the table and the file
\* as they were.
C1_EditMissingIndexFails ==
    [][(op'.name = "edit" /\ op'.index \notin Labels(exercise_df))
        => /\ op'.result = "KeyError"
           /\ exercise_df' = exercise_df
           /\ csv_file' = csv_file]_vars

\* C2: in every reachable state, delete with an index outside 0..length-1
\* (in particular index = length) signals an index error and leaves the
\* table and the file unchanged, and delete with an index in 0..length-1
\* never signals an index error.
C2_DeleteRangeCheck ==
    [][op'.name = "delete"
        => IF op'.index \in Positions(exercise_df)
           THEN op'.result # "KeyError"
           ELSE /\ op'.result = "KeyError"
                /\ exercise_df' = exercise_df
                /\ csv_file' = csv_file]_vars

\* C3: delete(i) of an existing index i leaves n-1 records; the record
\* formerly at j < i is still addressed by j, the record formerly at j > i
\* is now addressed by j-1.
C3_DeleteShiftsIndices ==
    [][(op'.name = "delete" /\ op'.result = "ok")
        => /\ Len(exercise_df') = Len(exercise_df) - 1
           /\ \A j \in Labels(exercise_df) \ {op'.index} :
                LET k == IF j < op'.index THEN j ELSE j - 1
                IN  /\ k \in Labels(exercise_df')
                    /\ RecAt(exercise_df', k) = RecAt(exercise_df, j)]_vars

\* C4: right after a successful add, edit or delete the file holds one line
\* per row of the table, in row order, with the texts of exercise, duration,
\* calories burned and date in that order; a read-only operation leaves the
\* file as it was.
C4_FileAgreesAfterMutation ==
    [][/\ (op'.name \in Mutating /\ op'.result = "ok")
            => /\ csv_file'.exists
               /\ Len(csv_file'.lines) = Len(exercise_df') + 1
               /\ csv_file'.lines[1] = columns
               /\ \A k \in 1..Len(exercise_df') :
                    csv_file'.lines[k + 1] =
                        <<ToCell(exercise_df'[k].Exercise),
                          ToCell(exercise_df'[k].Duration),
                          ToCell(exercise_df'[k].Calories_Burned),
                          ToCell(exercise_df'[k].Date)>>
       /\ op'.name \in {"read", "analyze", "filterByExercise", "filterByDate"}
            => csv_file' = csv_file]_vars

\* C4 witness: a successful edit of a two-row table whose file has the
\* header and two lines.
C4_Witness ==
    /\ op.name = "edit"
    /\ op.result = "ok"
    /\ Len(exercise_df) = 2
    /\ Len(csv_file.lines) = 3

\* C5: after any sequence of add calls, a fresh load yields the in-memory
\* table of the last save: same length, same order, same four field values.
C5_AddRoundTrip ==
    [][op'.name = "load" => Recs(exercise_df') = Recs(exercise_df)]_vars

\* C6: edit(i, ...) sets the four fields of the record at i and changes
\* nothing else: the length is unchanged and every other record keeps its
\* field values and its index.
C6_EditFrame ==
    [][op'.name = "edit"
        => /\ Len(exercise_df') = Len(exercise_df)
           /\ op'.index \in Labels(exercise_df')
           /\ RecAt(exercise_df', op'.index) = op'.args
           /\ \A k \in 1..Len(exercise_df) :
                exercise_df[k].label # op'.index
                    => exercise_df'[k] = exercise_df[k]]_vars

\* C6, for an index that has a record: the statement above restricted to
\* the calls whose index labels a row.
EditExistingFrame ==
    [][(op'.name = "edit" /\ op'.index \in Labels(exercise_df))
        => /\ Len(exercise_df') = Len(exercise_df)
           /\ RecAt(exercise_df', op'.index) = op'.args
           /\ \A k \in 1..Len(exercise_df) :
                exercise_df[k].label # op'.index
                    => exercise_df'[k] = exercise_df[k]]_vars

\* C7: when a mutating call ends, by returning or by failing, the table and
\* the file both reflect the change or neither does: the table is never
\* changed with the file left without the change.
C7_AllOrNothing ==
    [][op'.name \in Mutating
        => \/ exercise_df' = exercise_df /\ csv_file' = csv_file
           \/ csv_file' = to_csv(exercise_df')]_vars

\* C8: add yields n+1 records, the new one last and the previous n before
\* it in their order, also when the new record equals an existing one.
C8_AddAppends ==
    [][op'.name = "add"
        => /\ Len(exercise_df') = Len(exercise_df) + 1
           /\ Rec(exercise_df'[Len(exercise_df')]) = op'.args
           /\ \A k \in 1..Len(exercise_df) :
                Rec(exercise_df'[k]) = Rec(exercise_df[k])]_vars

\* C8 witness: an add has produced a table holding the same record twice.
C8_Witness ==
    /\ op.name = "add"
    /\ Len(exercise_df) = 2
    /\ Rec(exercise_df[1]) = Rec(exercise_df[2])
    /\ Rec(exercise_df[2]) = op.args

\* rows is the subsequence of df of the rows at the positions in hits, in
\* their order.
IsSubsequenceAt(rows, df, hits) ==
    /\ Len(rows) = Cardinality(hits)
    /\ \A i \in hits : rows[Cardinality({j \in hits : j <= i})] = df[i]

\* C9: a filter returns exactly the rows whose exercise (case-sensitive) or
\* date equals the argument, in their order, the empty table when none
\* does, and changes neither the table nor the file.
C9_FiltersSelect ==
    [][/\ op'.name = "filterByExercise"
            => /\ IsSubsequenceAt(out'.rows, exercise_df,
                    {i \in 1..Len(exercise_df) :
                        /\ exercise_df[i].Exercise.t = "str"
                        /\ exercise_df[i].Exercise.v = op'.args[1].v})
               /\ UNCHANGED <<exercise_df, csv_file>>
       /\ op'.name = "filterByDate"
            => /\ IsSubsequenceAt(out'.rows, exercise_df,
                    {i \in 1..Len(exercise_df) :
                        /\ exercise_df[i].Date.t = "date"
                        /\ exercise_df[i].Date.v = op'.args[1].v})
               /\ UNCHANGED <<exercise_df, csv_file>>]_vars

\* C9 witness: filtering "Run" out of a table that holds a "Run" row and a
\* "run" row has returned one row.
C9_Witness ==
    /\ op.name = "filterByExercise"
    /\ op.args = <<StrVal(<<"R", "u", "n">>)>>
    /\ Len(exercise_df) = 2
    /\ \E i \in 1..2 : exercise_df[i].Exercise = StrVal(<<"r", "u", "n">>)
    /\ Len(out.rows) = 1

\* C10: after successful add, edit and delete calls the indices edit and
\* delete accept are 0..length-1, in memory and after a fresh load, and each
\* refers to the same record in both.
C10_IndicesSurviveReload ==
    (state = "Ready" /\ op.name \in Mutating /\ op.result = "ok")
        => LET loaded == load_data(csv_file)
           IN  /\ Labels(exercise_df) = Positions(exercise_df)
               /\ Labels(loaded) = Labels(exercise_df)
               /\ \A i \in Labels(exercise_df) \cap Labels(loaded) :
                    RecAt(loaded, i) = RecAt(exercise_df, i)

====
